---- MODULE Spec2Model ----
(***************************************************************************)
(* Model of the recursive same-domain link crawler (scrape.py) and of the  *)
(* semaphore-bounded dispatch of embedding calls (batch_process.main).     *)
(*                                                                         *)
(* A string is the sequence of its tokens: "https://example.com/a" is      *)
(* <<"https", "://", "example.com", "/", "a">>, "/b" is <<"/", "b">>,      *)
(* "#top" is <<"#", "top">> and the empty string is <<>>.  The tokens are  *)
(* chosen so that "http" is a prefix of the tokens "http" and "https" only *)
(* and "redirect" occurs in a string iff it is one of its tokens.          *)
(***************************************************************************)
EXTENDS Integers, Sequences, FiniteSets, TLC

VARIABLES
    web,          \* the site: URL -> the hrefs of the <a> elements of its page
    seed,         \* extract_urls' url argument
    max_depth,    \* extract_urls' max_depth argument
    pc,           \* "start" | "running" | "done" | "error" | "batch"
    visited,      \* the visited set shared by the recursive calls
    stack,        \* activation records of _extract_urls_helper past the GET
    result,       \* the list extract_urls returned (meaningful when pc = "done")
    calls,        \* history: every call that got past the skip test
    gets,         \* history: the URLs given to requests.get, in order
    failedUrl,    \* history: the URL whose GET raised, <<>> while none did
    numUrls,      \* len(urls) in main
    nextIdx,      \* index of the first load_and_embed still waiting for a permit
    inflight,     \* indices whose embed_docs call is awaited
    finished,     \* indices whose load_and_embed has returned
    permits       \* the semaphore's value

crawlVars == <<web, seed, max_depth, pc, visited, stack, result, calls, gets, failedUrl>>
batchVars == <<numUrls, nextIdx, inflight, finished, permits>>
vars == <<web, seed, max_depth, pc, visited, stack, result, calls, gets, failedUrl,
          numUrls, nextIdx, inflight, finished, permits>>

-----------------------------------------------------------------------------
(* Bounds of the model *)

\* total number of anchors on the pages of the site (site-graph inputs)
MaxSiteLinks == 4
\* number of anchors on the seed page (href-filter inputs)
MaxAnchors == 4
\* max_depth ranges over 0..MaxDepthBound
MaxDepthBound == 2
\* len(urls) ranges over 0..MaxUrls
MaxUrls == 7
\* num_replicas and max_concurrency_per_replica, scaled down from 4 and 32
NumReplicas == 2
MaxConcurrencyPerReplica == 2

-----------------------------------------------------------------------------
(* Strings of the model *)

A == <<"https", "://", "example.com", "/", "a">>
B == <<"https", "://", "example.com", "/", "b">>
C == <<"https", "://", "example.com", "/", "c">>
D == <<"https", "://", "example.com", "/", "d">>
OtherD == <<"https", "://", "other.com", "/", "d">>
RedirectSeed == <<"https", "://", "example.com", "/", "redirect">>
RelB == <<"/", "b">>
RelC == <<"c">>
RelRedirect == <<"/", "redirect">>
FragTop == <<"#", "top">>
Mailto == <<"mailto", ":", "x">>

\* the pages that exist on example.com
SiteURLs == {A, B, C, D}
\* hrefs of the site-graph inputs, one per page of the site
SiteHrefs == {A, RelB, RelC, D}
\* hrefs of the href-filter inputs, one per branch of the loop body
FilterHrefs == {RelB, C, OtherD, FragTop, RelRedirect, Mailto}

\* the page of the end-to-end scenario: /b, https://example.com/c,
\* https://other.com/d and #top, in document order
ExamplePage == <<RelB, C, OtherD, FragTop>>

-----------------------------------------------------------------------------
(* urllib.parse and str operations, on token sequences *)

urlparse(s) ==
    IF Len(s) >= 3 /\ s[2] = "://" THEN [scheme |-> s[1], netloc |-> s[3]]
    ELSE IF Len(s) >= 2 /\ s[2] = ":" THEN [scheme |-> s[1], netloc |-> ""]
    ELSE [scheme |-> "", netloc |-> ""]

urljoin(base, href) ==
    IF href = <<>> THEN base
    ELSE IF urlparse(href).scheme # "" THEN href
    ELSE IF href[1] = "/" THEN SubSeq(base, 1, 3) \o href
    ELSE SubSeq(base, 1, Len(base) - 1) \o href

StartsWithHash(s) == Len(s) >= 1 /\ s[1] = "#"

StartsWithHttp(s) == Len(s) >= 1 /\ s[1] \in {"http", "https"}

ContainsRedirect(s) == \E i \in 1..Len(s) : s[i] = "redirect"

-----------------------------------------------------------------------------
(* _extract_urls_helper *)

SkipNoVisitedTest(url, vis, original_url) ==
    \/ urlparse(url).netloc # urlparse(original_url).netloc
    \/ ContainsRedirect(url)

SkipNoNetlocTest(url, vis, original_url) ==
    \/ url \in vis
    \/ ContainsRedirect(url)

Skip(url, vis, original_url) ==
    \/ url \in vis
    \/ urlparse(url).netloc # urlparse(original_url).netloc
    \/ ContainsRedirect(url)

MarkVisitedDropped(vis, url) == vis

MarkVisited(vis, url) == vis \cup {url}

WithinDepthOffByOne(current_depth, maxd) == current_depth <= maxd + 1

WithinDepth(current_depth, maxd) == current_depth <= maxd

\* href after lines 32-33
Resolve(url, href) == IF StartsWithHttp(href) THEN href ELSE urljoin(url, href)

\* the loop body reaches the recursive call for this href
Followed(url, href) ==
    /\ href # <<>>
    /\ ~StartsWithHash(href)
    /\ urlparse(Resolve(url, href)).scheme # ""
    /\ urlparse(Resolve(url, href)).netloc # ""

ExtendPrepended(urls, more) == more \o urls

Extend(urls, more) == urls \o more

\* response.text of a GET that returns, as the hrefs of its anchors
PageOf(url) == IF url \in DOMAIN web THEN web[url] ELSE <<>>

Top == stack[Len(stack)]

\* a call of the helper is about to be made: by extract_urls, or by the loop body
CallPending ==
    \/ pc = "start"
    \/ /\ pc = "running"
       /\ Top.i <= Len(Top.anchors)
       /\ Followed(Top.url, Top.anchors[Top.i])

CallUrl == IF pc = "start" THEN seed ELSE Resolve(Top.url, Top.anchors[Top.i])

CallDepth == IF pc = "start" THEN 1 ELSE Top.depth + 1

CallFrom == IF pc = "start" THEN <<>> ELSE Top.url

\* the helper returns `ret` to the caller on top of `stk` (extract_urls if none)
Deliver(stk, ret) ==
    IF stk = <<>>
    THEN /\ pc' = "done"
         /\ result' = ret
         /\ stack' = <<>>
    ELSE /\ pc' = "running"
         /\ stack' = [stk EXCEPT ![Len(stk)] =
                         [@ EXCEPT !.urls = Extend(@, ret), !.i = @ + 1]]
         /\ UNCHANGED result

NewFrame(url, depth, anchors) ==
    [url |-> url, depth |-> depth, urls |-> <<url>>, anchors |-> anchors, i |-> 1]

\* an exception raised by requests.get: the alternative below catches it
RaiseCaught(url, depth) ==
    /\ pc' = "running"
    /\ stack' = Append(stack, NewFrame(url, depth, <<>>))
    /\ UNCHANGED result

\* no frame of the helper nor extract_urls handles it
Raise(url, depth) ==
    /\ pc' = "error"
    /\ stack' = <<>>
    /\ UNCHANGED result

Visit == [url |-> CallUrl, depth |-> CallDepth, from |-> CallFrom]

\* lines 11-16: the skip test rejects the URL
CallSkip ==
    /\ CallPending
    /\ Skip(CallUrl, visited, seed)
    /\ Deliver(stack, <<>>)
    /\ UNCHANGED <<web, seed, max_depth, visited, calls, gets, failedUrl>>
    /\ UNCHANGED batchVars

\* lines 18-22, 42: visited beyond the depth bound, returned without a GET
CallLeaf ==
    /\ CallPending
    /\ ~Skip(CallUrl, visited, seed)
    /\ ~WithinDepth(CallDepth, max_depth)
    /\ visited' = MarkVisited(visited, CallUrl)
    /\ calls' = Append(calls, Visit)
    /\ Deliver(stack, <<CallUrl>>)
    /\ UNCHANGED <<web, seed, max_depth, gets, failedUrl>>
    /\ UNCHANGED batchVars

\* lines 18-25: visited within the depth bound, the GET returns
CallFetch ==
    /\ CallPending
    /\ ~Skip(CallUrl, visited, seed)
    /\ WithinDepth(CallDepth, max_depth)
    /\ visited' = MarkVisited(visited, CallUrl)
    /\ calls' = Append(calls, Visit)
    /\ gets' = Append(gets, CallUrl)
    /\ pc' = "running"
    /\ stack' = Append(stack, NewFrame(CallUrl, CallDepth, PageOf(CallUrl)))
    /\ UNCHANGED <<web, seed, max_depth, result, failedUrl>>
    /\ UNCHANGED batchVars

\* lines 18-23: visited within the depth bound, the GET raises
CallFetchError ==
    /\ CallPending
    /\ ~Skip(CallUrl, visited, seed)
    /\ WithinDepth(CallDepth, max_depth)
    /\ visited' = MarkVisited(visited, CallUrl)
    /\ calls' = Append(calls, Visit)
    /\ gets' = Append(gets, CallUrl)
    /\ failedUrl' = CallUrl
    /\ Raise(CallUrl, CallDepth)
    /\ UNCHANGED <<web, seed, max_depth>>
    /\ UNCHANGED batchVars

\* lines 25-36: an anchor the loop body does not follow
NextAnchor ==
    /\ pc = "running"
    /\ Top.i <= Len(Top.anchors)
    /\ ~Followed(Top.url, Top.anchors[Top.i])
    /\ stack' = [stack EXCEPT ![Len(stack)] = [@ EXCEPT !.i = @ + 1]]
    /\ UNCHANGED <<web, seed, max_depth, pc, visited, result, calls, gets, failedUrl>>
    /\ UNCHANGED batchVars

\* line 42: the loop is over
Return ==
    /\ pc = "running"
    /\ Top.i > Len(Top.anchors)
    /\ Deliver(SubSeq(stack, 1, Len(stack) - 1), Top.urls)
    /\ UNCHANGED <<web, seed, max_depth, visited, calls, gets, failedUrl>>
    /\ UNCHANGED batchVars

-----------------------------------------------------------------------------
(* Inputs of extract_urls *)

SeqsOfLen(S, n) == [1..n -> S]

NoPages == [u \in SiteURLs |-> <<>>]

\* site graphs: pages A, B, C link to pages of the site, MaxSiteLinks anchors in all
SiteGraphs ==
    UNION { UNION { UNION {
        { [NoPages EXCEPT ![A] = pa, ![B] = pb, ![C] = pc3] :
            pa \in SeqsOfLen(SiteHrefs, la),
            pb \in SeqsOfLen(SiteHrefs, lb),
            pc3 \in SeqsOfLen(SiteHrefs, lc) } :
        lc \in 0..(MaxSiteLinks - la - lb) } :
        lb \in 0..(MaxSiteLinks - la) } :
        la \in 0..MaxSiteLinks }

\* href-filter inputs: the seed page holds up to MaxAnchors hrefs of every kind
FilterGraphs(s) ==
    UNION { { [u \in SiteURLs \cup {s} |-> IF u = s THEN p ELSE <<>>] :
                p \in SeqsOfLen(FilterHrefs, n) } :
            n \in 0..MaxAnchors }

BatchIdle ==
    /\ numUrls = 0
    /\ nextIdx = 0
    /\ inflight = {}
    /\ finished = {}
    /\ permits = 0

\* the state extract_urls starts the helper from (lines 45-49)
CrawlStart ==
    /\ max_depth \in 0..MaxDepthBound
    /\ pc = "start"
    /\ visited = {}
    /\ stack = <<>>
    /\ result = <<>>
    /\ calls = <<>>
    /\ gets = <<>>
    /\ failedUrl = <<>>

CrawlInit ==
    /\ \/ seed = A /\ web \in SiteGraphs
       \/ seed \in {A, RedirectSeed} /\ web \in FilterGraphs(seed)
    /\ CrawlStart

\* the site graphs (every cycle among the pages) and the end-to-end scenario
CycleInit ==
    /\ seed = A
    /\ web \in SiteGraphs \cup {[NoPages EXCEPT ![A] = ExamplePage]}
    /\ CrawlStart

Init == CrawlInit /\ BatchIdle

Next ==
    \/ CallSkip
    \/ CallLeaf
    \/ CallFetch
    \/ CallFetchError
    \/ NextAnchor
    \/ Return

Spec == Init /\ [][Next]_vars

\* every GET returns or raises, and the interpreter keeps running the call
FairInit == CycleInit /\ BatchIdle

FairSpec == FairInit /\ [][Next]_vars /\ WF_vars(Next)

-----------------------------------------------------------------------------
(* batch_process.main: the dispatch of load_and_embed over the replicas *)

\* embedder_replicas[idx % num_replicas]
ReplicaOf(idx) == idx % NumReplicas

\* asyncio.Semaphore(max_concurrency_per_replica * num_replicas)
SemaphoreSize == MaxConcurrencyPerReplica * NumReplicas

InFlightOn(r) == {i \in inflight : ReplicaOf(i) = r}

\* the crawl is over and its variables no longer change
BatchInit ==
    /\ web = NoPages
    /\ seed = A
    /\ max_depth = 0
    /\ pc = "batch"
    /\ visited = {}
    /\ stack = <<>>
    /\ result = <<>>
    /\ calls = <<>>
    /\ gets = <<>>
    /\ failedUrl = <<>>
    /\ numUrls \in 0..MaxUrls
    /\ nextIdx = 0
    /\ inflight = {}
    /\ finished = {}
    /\ permits = SemaphoreSize

\* async with semaphore: the first waiting load_and_embed gets a permit and
\* awaits embed_docs on its replica
Acquire ==
    /\ pc = "batch"
    /\ nextIdx < numUrls
    /\ permits > 0
    /\ permits' = permits - 1
    /\ inflight' = inflight \cup {nextIdx}
    /\ nextIdx' = nextIdx + 1
    /\ UNCHANGED <<numUrls, finished>>
    /\ UNCHANGED crawlVars

\* an embed_docs call returns or raises: the permit is released
Complete ==
    /\ pc = "batch"
    /\ \E i \in inflight :
        /\ inflight' = inflight \ {i}
        /\ finished' = finished \cup {i}
    /\ permits' = permits + 1
    /\ UNCHANGED <<numUrls, nextIdx>>
    /\ UNCHANGED crawlVars

BatchNext ==
    \/ Acquire
    \/ Complete

SpecBatch == BatchInit /\ [][BatchNext]_vars

-----------------------------------------------------------------------------
(* Definitions used to state the properties *)

Range(s) == {s[i] : i \in 1..Len(s)}

NoDuplicates(s) == \A i, j \in 1..Len(s) : i # j => s[i] # s[j]

RECURSIVE Concat(_)
\* the urls lists of the live calls, outermost first
Concat(stk) ==
    IF stk = <<>> THEN <<>>
    ELSE Concat(SubSeq(stk, 1, Len(stk) - 1)) \o stk[Len(stk)].urls

\* the URLs appended so far, in the order they will have in the result
Appended == IF pc = "done" THEN result ELSE Concat(stack)

Occurrences(s, x) == Cardinality({i \in 1..Len(s) : s[i] = x})

\* the links a GET of url yields: resolved hrefs that reach the recursive call
Links(url) ==
    {Resolve(url, PageOf(url)[i]) :
        i \in {k \in 1..Len(PageOf(url)) : Followed(url, PageOf(url)[k])}}

Eligible(url) ==
    /\ urlparse(url).netloc = urlparse(seed).netloc
    /\ ~ContainsRedirect(url)

RECURSIVE ReachWithin(_)
\* the eligible URLs at most n links from the seed through eligible pages
ReachWithin(n) ==
    IF n = 0 THEN {u \in {seed} : Eligible(u)}
    ELSE LET R == ReachWithin(n - 1)
         IN R \cup {v \in UNION {Links(u) : u \in R} : Eligible(v)}

RECURSIVE RefHelper(_, _, _)
RECURSIVE RefLoop(_, _, _, _, _)
\* reference depth-bounded pre-order DFS with a threaded visited set
RefHelper(url, depth, vis) ==
    IF url \in vis \/ ~Eligible(url) THEN [urls |-> <<>>, vis |-> vis]
    ELSE IF depth > max_depth THEN [urls |-> <<url>>, vis |-> vis \cup {url}]
    ELSE RefLoop(url, depth, 1, <<url>>, vis \cup {url})

RefLoop(url, depth, i, acc, vis) ==
    IF i > Len(PageOf(url)) THEN [urls |-> acc, vis |-> vis]
    ELSE IF ~Followed(url, PageOf(url)[i]) THEN RefLoop(url, depth, i + 1, acc, vis)
    ELSE LET r == RefHelper(Resolve(url, PageOf(url)[i]), depth + 1, vis)
         IN RefLoop(url, depth, i + 1, acc \o r.urls, r.vis)

-----------------------------------------------------------------------------
(* Properties *)

\* C1: the URLs appended so far, and the returned list, hold no URL twice, and
\* while the call runs or has returned they are exactly the visited set.
C1_NoDuplicates ==
    /\ NoDuplicates(Appended)
    /\ pc \in {"running", "done"} => Range(Appended) = visited

\* C1 witness: a seed page that links to itself was fetched and the call returned
C1_Witness ==
    /\ pc = "done"
    /\ A \in Range(gets)
    /\ A \in Range(PageOf(A))
    /\ RelB \in Range(PageOf(A))
    /\ Occurrences(result, A) = 1

\* C2: every URL visited, appended, fetched or returned has the seed's netloc.
C2_SameNetloc ==
    \A u \in visited \cup Range(Appended) \cup Range(gets) \cup Range(result) :
        urlparse(u).netloc = urlparse(seed).netloc

\* C2 witness: a fetched page linked to another domain and the call returned
C2_Witness ==
    /\ pc = "done"
    /\ seed \in Range(gets)
    /\ OtherD \in Range(PageOf(seed))
    /\ Len(result) >= 2

\* C3 as stated: whatever the seed, the result is non-empty and starts with it.
C3_Original == pc = "done" => (result # <<>> /\ result[1] = seed)

\* C3 amended: for a seed that does not contain "redirect", the result is
\* non-empty and its first element is the seed.
C3_SeedFirst ==
    (pc = "done" /\ ~ContainsRedirect(seed)) => (result # <<>> /\ result[1] = seed)

\* C3 witness: a call that discovered further URLs returned
C3_Witness ==
    /\ pc = "done"
    /\ ~ContainsRedirect(seed)
    /\ Len(result) >= 3
    /\ result[1] = seed

\* C4 as stated: with max_depth = 0 the result is [seed] and nothing is fetched.
C4_Original ==
    max_depth = 0 => (gets = <<>> /\ (pc = "done" => result = <<seed>>))

\* C4 amended: with max_depth = 0 nothing is fetched, no link is followed, and
\* the result is [seed] for a seed that does not contain "redirect" and [] for
\* one that does, whatever the seed page holds.
C4_DepthZero ==
    max_depth = 0 =>
        /\ gets = <<>>
        /\ stack = <<>>
        /\ pc # "error"
        /\ pc = "done" =>
            result = (IF ContainsRedirect(seed) THEN <<>> ELSE <<seed>>)

\* C4 witness: depth 0 on a seed page full of links
C4_Witness ==
    /\ pc = "done"
    /\ max_depth = 0
    /\ Len(PageOf(seed)) >= 3
    /\ result = <<seed>>

\* C5: every call ends (returned, or a GET raised), and every call past the
\* skip test strictly enlarges the visited set.
C5_Terminates ==
    /\ <>(pc = "done" \/ failedUrl # <<>>)
    /\ [][Len(calls') > Len(calls) => (visited \subseteq visited' /\ visited' # visited)]_vars

\* C5 witness: a call over mutually linked pages returned
C5_Witness ==
    /\ pc = "done"
    /\ RelB \in Range(PageOf(A))
    /\ A \in Range(PageOf(B))
    /\ B \in Range(gets)

\* C6: once a GET has raised, extract_urls has ended in the error outcome: no
\* list is returned, the failing URL was requested once and last, and nothing
\* more happens.
C6_FetchErrorAborts ==
    /\ failedUrl # <<>> =>
        /\ pc = "error"
        /\ stack = <<>>
        /\ result = <<>>
        /\ gets[Len(gets)] = failedUrl
        /\ Occurrences(gets, failedUrl) = 1
        /\ ~ENABLED Next
    /\ pc = "error" => failedUrl # <<>>

\* C6 witness: the GET of a descendant raised after other URLs were discovered
C6_Witness ==
    /\ pc = "error"
    /\ Len(gets) >= 2
    /\ Len(calls) >= 3
    /\ failedUrl # seed

\* C7: the result is the reference pre-order DFS's, every URL comes after the
\* page it was discovered from, and the end-to-end scenario yields [a, b, c]
\* with only the seed fetched.
C7_PreOrder ==
    pc = "done" =>
        /\ result = RefHelper(seed, 1, {}).urls
        /\ \A k \in 1..Len(calls) :
            calls[k].from # <<>> =>
                \E i, j \in 1..Len(result) :
                    i < j /\ result[i] = calls[k].from /\ result[j] = calls[k].url
        /\ (seed = A /\ max_depth = 1 /\ PageOf(A) = ExamplePage) =>
            (result = <<A, B, C>> /\ gets = <<A>>)

\* C7 witness: the end-to-end scenario has run
C7_Witness ==
    /\ pc = "done"
    /\ seed = A
    /\ max_depth = 1
    /\ PageOf(A) = ExamplePage
    /\ result = <<A, B, C>>

\* C8: no URL is requested twice, every requested URL was newly visited at a
\* depth <= max_depth, and when the call returns every URL visited at such a
\* depth was requested and the GETs are no more than the result is long.
C8_OneGetPerVisit ==
    /\ NoDuplicates(gets)
    /\ \A u \in Range(gets) :
        /\ u \in visited
        /\ Eligible(u)
        /\ \A k \in 1..Len(calls) : calls[k].url = u => calls[k].depth <= max_depth
    /\ pc = "done" =>
        /\ \A k \in 1..Len(calls) :
            calls[k].depth <= max_depth => calls[k].url \in Range(gets)
        /\ Len(gets) <= Len(result)

\* C8 witness: a returned call that fetched pages and visited one beyond the bound
C8_Witness ==
    /\ pc = "done"
    /\ Len(gets) >= 2
    /\ \E k \in 1..Len(calls) : calls[k].depth = max_depth + 1

\* C9 as stated: every eligible URL at most max_depth links from the seed is in
\* the result.
C9_Complete == pc = "done" => ReachWithin(max_depth) \subseteq Range(result)

\* C10 as stated: no replica ever has more than max_concurrency_per_replica
\* embed_docs calls in flight.
C10_PerReplicaBound ==
    \A r \in 0..(NumReplicas - 1) :
        Cardinality(InFlightOn(r)) <= MaxConcurrencyPerReplica

====
